---------------------------- MODULE Spec2Model ----------------------------
(***************************************************************************)
(* opencode-event-push: the event dispatcher and the retrying delivery     *)
(* engine (pushToTarget), as a state machine.                              *)
(*                                                                         *)
(* One handler invocation is followed from the host's call to its return.  *)
(* The synchronous part of the handler (the filter, and every               *)
(* pushToTarget call up to its first await, which issues the first fetch)  *)
(* is one step; every later step is the continuation of one await: a       *)
(* fetch that settles, a backoff timer that fires, a logger call that      *)
(* settles, and the join of Promise.allSettled.                            *)
(*                                                                         *)
(* An optional field of the configuration is None (absent) or Some(v).     *)
(*                                                                         *)
(* The configuration loader (interpolate, readConfigFile, loadConfig) is   *)
(* followed in specifications of its own, SpecInterp and SpecLoad, and the *)
(* single load at activation in SpecReload.                                *)
(***************************************************************************)
EXTENDS Integers, Sequences, FiniteSets, TLC

VARIABLES
    targets,   \* the target list loaded at activation (read-only afterwards)
    hooks,     \* what activation returned: "unset" | "empty" | "event"
    hpc,       \* the event handler: "idle" | "awaiting" | "returned" | "raised"
    event,     \* the event of the current handler invocation
    task,      \* task[i]: the pushToTarget call for targets[i] in this invocation
    load,      \* a loadConfig call: the files, the directory, and how far it got
    interp     \* an interpolate call: the value, the environment, the result

vars == <<targets, hooks, hpc, event, task, load, interp>>

----------------------------------------------------------------------------
(* Bounds of the model *)

MaxTargets == 2
MaxAttempts == 2
MaxPushAttempts == 4
\* the longest target list written in one configuration file
MaxFileTargets == 2
\* the longest string given to interpolate
MaxStrLen == 4
\* the longest target list the configuration on disk may come to hold
MaxDiskTargets == 1

(* Program constants *)

DefaultAttempts == 3
DefaultDelayMs == 500

----------------------------------------------------------------------------
(* Optional values *)

None == <<>>
Some(v) == <<v>>
IsSome(o) == o # <<>>
OrElse(o, d) == IF o = <<>> THEN d ELSE o[1]

Range(s) == {s[i] : i \in DOMAIN s}

----------------------------------------------------------------------------
(* Inputs *)

EventTypes == {"x", "z"}

\* events: absent, empty, or a list that holds "x" and not "z"
EventsChoices == {None, Some(<<>>), Some(<<"y", "x">>)}

\* retry: absent, or a policy that gives the attempts
RetryChoices ==
    {None} \cup {Some([attempts |-> Some(n), delayMs |-> None]) : n \in 0..MaxAttempts}

\* The targets a configuration file may hold: each filter with a policy of
\* one attempt and no delay, and each policy without a filter
TargetPool ==
    {[events |-> e, retry |-> Some([attempts |-> Some(1), delayMs |-> Some(0)])] :
        e \in EventsChoices}
    \cup {[events |-> None, retry |-> r] : r \in RetryChoices}

TargetLists == UNION {[1..n -> TargetPool] : n \in 0..MaxTargets}

\* headers: absent, an extra header, a Content-Type of the target's own, both
HeadersChoices ==
    {None,
     Some([h \in {"Authorization"} |-> "Bearer token"]),
     Some([h \in {"Content-Type"} |-> "text/plain"]),
     Some([h \in {"Authorization", "Content-Type"} |->
             IF h = "Authorization" THEN "Bearer token" ELSE "text/plain"])}

\* TargetConfig: the url is the target's place in the list
MakeTargets(f) ==
    [i \in DOMAIN f |->
        [url |-> <<"url", i>>, events |-> f[i].events, retry |-> f[i].retry,
         headers |-> IF "headers" \in DOMAIN f[i] THEN f[i].headers ELSE None]]

\* The targets of a single pushToTarget call: no retry policy, or one with
\* the attempts absent or up to MaxPushAttempts and any delay, with every
\* choice of headers
PushDelayChoices == {None, Some(0), Some(100)}

PushAttemptsChoices == {None} \cup {Some(n) : n \in -1..MaxPushAttempts}

PushPool ==
    {[events |-> None,
      retry |-> Some([attempts |-> a, delayMs |-> d]),
      headers |-> h] :
        a \in PushAttemptsChoices, d \in PushDelayChoices, h \in HeadersChoices}
    \cup {[events |-> None, retry |-> None, headers |-> h] : h \in HeadersChoices}

\* What a fetch can do: a 2xx status, another status, a rejected promise
FetchOutcomes == {"ok", "status", "transport"}

\* What the host's logger call can do
LogOutcomes == {"ok", "fail"}

----------------------------------------------------------------------------
(* JSON values and interpolate *)

\* A JSON value is a tagged tuple. A string is a sequence of symbols: an
\* ordinary character, "}" or "{env:" (the five characters that open a token)
Null == <<"null">>
Num(n) == <<"num", n>>
Bool(b) == <<"bool", b>>
Str(chars) == <<"str", chars>>
Arr(items) == <<"arr", items>>
\* entries: a sequence of <<key, value>>
Obj(entries) == <<"obj", entries>>

Open == "{env:"
Close == "}"

\* the first "}" at or after position j of s (0 when there is none)
RECURSIVE FirstClose(_, _)
FirstClose(s, j) ==
    IF j > Len(s) THEN 0
    ELSE IF s[j] = Close THEN j
    ELSE FirstClose(s, j + 1)

\* /\{env:([^}]+)\}/ tried at position i: the position of the closing "}" of
\* the match, or 0 when there is no match at i
MatchEnd(s, i) ==
    IF s[i] # Open THEN 0
    ELSE LET j == FirstClose(s, i + 1)
         IN  IF j >= i + 2 THEN j ELSE 0

\* process.env[name] ?? ""
EnvLookup(env, name) == IF name \in DOMAIN env THEN env[name] ELSE <<>>

\* value.replace(/\{env:([^}]+)\}/g, ...): the matches are found from left to
\* right, each search starting where the last match ended
RECURSIVE ReplaceFrom(_, _, _)
ReplaceFrom(s, i, env) ==
    IF i > Len(s) THEN <<>>
    ELSE LET j == MatchEnd(s, i)
         IN  IF j # 0
             THEN EnvLookup(env, SubSeq(s, i + 1, j - 1)) \o ReplaceFrom(s, j + 1, env)
             ELSE <<s[i]>> \o ReplaceFrom(s, i + 1, env)

ReplaceTokens(s, env) == ReplaceFrom(s, 1, env)

\* The members of `result` after the assignments result[k] = v made in the
\* order of `entries`. An assignment to the key "__proto__" goes to the
\* accessor inherited from Object.prototype: it creates no member of result
AssignAll(entries) == SelectSeq(entries, LAMBDA kv : kv[1] # "__proto__")

\* interpolate: strings are substituted, arrays and objects are rebuilt with
\* their elements and values interpolated, every other value is returned
RECURSIVE Interpolate(_, _)
Interpolate(v, env) ==
    IF v[1] = "str" THEN Str(ReplaceTokens(v[2], env))
    ELSE IF v[1] = "arr"
    THEN Arr([k \in 1..Len(v[2]) |-> Interpolate(v[2][k], env)])
    ELSE IF v[1] = "obj"
    THEN Obj(AssignAll([k \in 1..Len(v[2]) |->
                            <<v[2][k][1], Interpolate(v[2][k][2], env)>>]))
    ELSE v

\* The characters of the strings given to interpolate
Symbols == {Open, Close, "A", "B", "-"}
Strings == UNION {[1..n -> Symbols] : n \in 0..MaxStrLen}

\* The environments: a variable is set to a text, to the empty text or to a
\* text that is itself a token, or is not set
Envs ==
    {[name \in {<<"A">>} |-> <<"h", "i">>],
     [name \in {<<"A">>, <<"B">>} |-> IF name = <<"A">> THEN <<Open, "B", Close>> ELSE <<>>],
     [name \in {<<"B">>, <<"A", "B">>} |-> IF name = <<"B">> THEN <<"w">> ELSE <<"-", "-">>]}

\* The values given to interpolate that are not strings
Values ==
    << Null,
       Num(42),
       Bool(TRUE),
       Bool(FALSE),
       Arr(<<>>),
       Arr(<<Str(<<Open, "A", Close>>), Str(<<"-">>), Num(1), Null>>),
       Obj(<<>>),
       Obj(<< <<"url", Str(<<"-", Open, "A", Close>>)>>,
              <<"headers", Obj(<< <<"k{env:A}", Str(<<Open, "B", Close, "-">>)>> >>)>>,
              <<"n", Num(7)>> >>),
       Obj(<< <<"targets",
                Arr(<< Obj(<< <<"url", Str(<<Open, "A", Close>>)>>,
                              <<"events", Arr(<<Str(<<Open, "B", Close>>)>>)>> >>) >>)>> >>),
       Obj(<< <<"url", Str(<<"-">>)>>,
              <<"headers", Obj(<< <<"X", Str(<<"A">>)>> >>)>> >>),
       Obj(<< <<"__proto__", Obj(<< <<"a", Num(1)>> >>)>>,
              <<"b", Str(<<"-">>)>> >>) >>

----------------------------------------------------------------------------
(* readConfigFile and loadConfig *)

\* What readFileSync throws: an Error, with a `code` when the system call
\* failed, without one otherwise
FileErrors == {[code |-> Some("ENOENT")], [code |-> Some("EACCES")], [code |-> None]}
\* JSON.parse's SyntaxError and the TypeError of a property read on null
\* carry no `code`
SyntaxError == [code |-> None]
TypeError == [code |-> None]

\* The environment of a loadConfig call: H is set, nothing else is
LoadEnv == [name \in {<<"H">>} |-> <<"h", "o", "s", "t">>]

\* The k-th target written in the file tagged `tag`
FileTarget(tag, k) ==
    Obj(<< <<"url", Str(<<tag, Open, "H", Close>>)>>,
           <<"retry", Obj(<< <<"attempts", Num(k)>> >>)>> >>)

\* The texts a configuration file may hold: <<"bad">> is a text that is not
\* JSON, <<"json", v>> the JSON text of the value v
FixedTexts ==
    << <<"bad">>,
       <<"json", Null>>,
       <<"json", Num(42)>>,
       <<"json", Bool(TRUE)>>,
       <<"json", Str(<<"o">>)>>,
       <<"json", Arr(<<>>)>>,
       <<"json", Obj(<<>>)>>,
       <<"json", Obj(<< <<"targets", Str(<<"o">>)>> >>)>>,
       <<"json", Obj(<< <<"targets", Null>> >>)>> >>
FileTexts(tag) ==
    FixedTexts \o
    [n \in 1..(MaxFileTargets + 1) |->
        <<"json", Obj(<< <<"targets", Arr([k \in 1..(n - 1) |-> FileTarget(tag, k)])>> >>)>>]

\* A file of the file system: the read throws, or gives the file's text
Files(tag) ==
    {[read |-> "throws", err |-> e, text |-> 0] : e \in FileErrors}
    \cup {[read |-> "ok", err |-> [code |-> None], text |-> k] : k \in DOMAIN FileTexts(tag)}

\* JSON.parse(raw)
JsonParse(text) ==
    IF text[1] = "bad" THEN [threw |-> TRUE, value |-> Null]
    ELSE [threw |-> FALSE, value |-> text[2]]

Undefined == <<"undefined">>

\* v.key for a value that is not null: the member of an object, undefined
\* for a missing member and for every other kind of value
Field(v, key) ==
    IF v[1] = "obj" /\ \E k \in DOMAIN v[2] : v[2][k][1] = key
    THEN v[2][CHOOSE k \in DOMAIN v[2] : v[2][k][1] = key][2]
    ELSE Undefined

IsArray(v) == v[1] = "arr"

\* { targets: [] }
EmptyConfig == Obj(<< <<"targets", Arr(<<>>)>> >>)

\* Mutant of IsNotFound: no error counts as a missing file
IsNotFoundNever(err) == FALSE

\* Mutant of IsNotFound: every error with a code counts as a missing file
IsNotFoundAnyCode(err) == IsSome(err.code)

\* err instanceof Error && "code" in err && err.code === "ENOENT"
IsNotFound(err) == IsSome(err.code) /\ err.code[1] = "ENOENT"

\* Mutant of Catch: an error that is not a missing file is thrown again
CatchRethrows(err, parses) ==
    [result |-> None, warns |-> 0, parses |-> parses, threw |-> ~IsNotFound(err)]

\* The catch block: warn unless the file is missing, return null
Catch(err, parses) ==
    [result |-> None, warns |-> IF IsNotFound(err) THEN 0 ELSE 1, parses |-> parses,
     threw |-> FALSE]

\* readConfigFile: what it returns (None is null), how many warnings it
\* printed, how many times it called JSON.parse, and whether it threw
\* instead of returning
ReadConfigFile(file, texts, env) ==
    IF file.read = "throws" THEN Catch(file.err, 0)
    ELSE LET p == JsonParse(texts[file.text])
         IN  IF p.threw THEN Catch(SyntaxError, 1)
             ELSE LET parsed == Interpolate(p.value, env)
                  IN  IF parsed[1] = "null" THEN Catch(TypeError, 1)
                      ELSE IF ~IsArray(Field(parsed, "targets"))
                      THEN [result |-> Some(EmptyConfig), warns |-> 1, parses |-> 1,
                            threw |-> FALSE]
                      ELSE [result |-> Some(parsed), warns |-> 0, parses |-> 1,
                            threw |-> FALSE]

\* config?.targets ?? []
TargetsOf(config) == IF IsSome(config) THEN Field(config[1], "targets")[2] ELSE <<>>

\* Mutant of MergeTargets: the project targets come first
MergeProjectFirst(globalConfig, projectConfig) ==
    TargetsOf(projectConfig) \o TargetsOf(globalConfig)

\* [...(globalConfig?.targets ?? []), ...(projectConfig?.targets ?? [])]
MergeTargets(globalConfig, projectConfig) ==
    TargetsOf(globalConfig) \o TargetsOf(projectConfig)

----------------------------------------------------------------------------
(* pushToTarget *)

\* const { url, retry = {}, headers = {} } = target
RetryOf(t) == OrElse(t.retry, [attempts |-> None, delayMs |-> None])

\* const maxAttempts = retry.attempts ?? 3
MaxAttemptsOf(t) == OrElse(RetryOf(t).attempts, DefaultAttempts)

\* const baseDelay = retry.delayMs ?? 500
BaseDelayOf(t) == OrElse(RetryOf(t).delayMs, DefaultDelayMs)

\* Mutant of LoopContinues: a do-while loop, the first attempt is made
\* whatever the number of attempts
LoopContinuesAtLeastOnce(attempt, maxAttempts) == attempt = 0 \/ attempt < maxAttempts

\* the loop condition: attempt < maxAttempts
LoopContinues(attempt, maxAttempts) == attempt < maxAttempts

\* if (res.ok) return
IsOk(outcome) == outcome = "ok"

\* Mutant of Caught: the fetch call stands outside the try block, so only the
\* Error thrown for a non-OK status is caught
CaughtStatusOnly(outcome) == outcome = "status"

\* what the catch block receives: the Error thrown for a non-OK status, or
\* the rejection of fetch
Caught(outcome) == outcome \in {"status", "transport"}

\* String(err)
ErrorText(outcome) ==
    IF outcome = "status" THEN "Error: HTTP status" ELSE "Error: fetch failed"

\* Mutant of IsLastAttempt: compares with maxAttempts, off by one
IsLastAttemptOffByOne(attempt, maxAttempts) == attempt = maxAttempts

\* const isLastAttempt = attempt === maxAttempts - 1
IsLastAttempt(attempt, maxAttempts) == attempt = maxAttempts - 1

\* Mutant of Backoff: the exponent counts the attempts from one
BackoffFromOne(baseDelay, attempt) == baseDelay * 2^(attempt + 1)

\* const delay = baseDelay * 2 ** attempt
Backoff(baseDelay, attempt) == baseDelay * 2^attempt

\* Mutant of LogRecord: the record reports the index of the last attempt, not
\* the number of attempts
LogRecordAttemptIndex(t, outcome) ==
    [service |-> "opencode-event-push",
     level |-> "warn",
     message |-> <<"Failed to push event to", t.url, "after", MaxAttemptsOf(t) - 1,
                   "attempt(s):", ErrorText(outcome)>>,
     extra |-> [url |-> t.url, error |-> ErrorText(outcome),
                attempts |-> MaxAttemptsOf(t) - 1]]

\* the arguments of the log call
LogRecord(t, outcome) ==
    [service |-> "opencode-event-push",
     level |-> "warn",
     message |-> <<"Failed to push event to", t.url, "after", MaxAttemptsOf(t),
                   "attempt(s):", ErrorText(outcome)>>,
     extra |-> [url |-> t.url, error |-> ErrorText(outcome),
                attempts |-> MaxAttemptsOf(t)]]

\* JSON.stringify of an event record, which holds its type
JsonStringify(payload) == "{\"type\":\"" \o payload.type \o "\"}"

\* Mutant of RequestHeaders: the target's headers are spread first, so the
\* default Content-Type replaces the target's
RequestHeadersDefaultLast(t) ==
    LET own == OrElse(t.headers, <<>>)
    IN  [h \in DOMAIN own \cup {"Content-Type"} |->
            IF h = "Content-Type" THEN "application/json" ELSE own[h]]

\* headers: { "Content-Type": "application/json", ...headers }
RequestHeaders(t) ==
    LET own == OrElse(t.headers, <<>>)
    IN  [h \in {"Content-Type"} \cup DOMAIN own |->
            IF h \in DOMAIN own THEN own[h] ELSE "application/json"]

\* the arguments of the fetch call
Request(t, payload) ==
    [url |-> t.url, method |-> "POST", headers |-> RequestHeaders(t),
     body |-> JsonStringify(payload)]

\* a pushToTarget call that was not made
\* pc: where the call stands; payload: its second argument; attempt: the
\* loop variable; sent: the fetch calls made; req: the last of them; waits:
\* the delays of the timers set; logs: the log calls made.
\* oks, fails and logRes record what the call was answered: the successful
\* and failed fetch outcomes and the outcome of the log call.
NoTask ==
    [pc |-> "none", payload |-> None, attempt |-> 0, sent |-> 0, req |-> None,
     waits |-> <<>>, logs |-> <<>>, oks |-> 0, fails |-> 0, logRes |-> "none"]

\* the head of the loop: the next fetch is issued, or the loop ends and the
\* function returns
LoopHead(t, s) ==
    IF LoopContinues(s.attempt, MaxAttemptsOf(t))
    THEN [s EXCEPT !.pc = "fetch", !.sent = @ + 1,
                   !.req = Some(Request(t, s.payload[1]))]
    ELSE [s EXCEPT !.pc = "resolved"]

\* the call, up to its first await
PushStart(t, payload) == LoopHead(t, [NoTask EXCEPT !.payload = Some(payload)])

\* Mutant of OnSuccess: no return on res.ok, the call goes on to the backoff
\* wait and the next attempt
OnSuccessFallsThrough(s) == [s EXCEPT !.pc = "sleep"]

\* if (res.ok) return
OnSuccess(s) == [s EXCEPT !.pc = "resolved"]

\* Mutant of OnFailure: only a non-OK status is retried, a rejection of
\* fetch ends the attempts and is reported at once
OnFailureTransportTerminal(t, s, outcome) ==
    IF IsLastAttempt(s.attempt, MaxAttemptsOf(t)) \/ outcome = "transport"
    THEN [s EXCEPT !.pc = "logging", !.logs = Append(@, LogRecord(t, outcome))]
    ELSE [s EXCEPT !.pc = "sleep",
                   !.waits = Append(@, Backoff(BaseDelayOf(t), s.attempt))]

\* Mutant of OnFailure: the retry is issued at once and the backoff timer is
\* not awaited
OnFailureRetriesAtOnce(t, s, outcome) ==
    IF IsLastAttempt(s.attempt, MaxAttemptsOf(t))
    THEN [s EXCEPT !.pc = "logging", !.logs = Append(@, LogRecord(t, outcome))]
    ELSE LoopHead(t, [s EXCEPT !.waits = Append(@, Backoff(BaseDelayOf(t), s.attempt)),
                               !.attempt = @ + 1])

\* the catch block
OnFailure(t, s, outcome) ==
    IF IsLastAttempt(s.attempt, MaxAttemptsOf(t))
    THEN [s EXCEPT !.pc = "logging", !.logs = Append(@, LogRecord(t, outcome))]
    ELSE [s EXCEPT !.pc = "sleep",
                   !.waits = Append(@, Backoff(BaseDelayOf(t), s.attempt))]

\* an error that no catch block receives rejects the call
OnUncaught(s) == [s EXCEPT !.pc = "rejected"]

\* the continuation of `await fetch(...)`
AfterFetch(t, s, outcome) ==
    IF IsOk(outcome) THEN OnSuccess(s)
    ELSE IF Caught(outcome) THEN OnFailure(t, s, outcome)
    ELSE OnUncaught(s)

\* the continuation of the backoff wait: attempt++ and the head of the loop
AfterSleep(t, s) == LoopHead(t, [s EXCEPT !.attempt = @ + 1])

\* the continuation of `await log(...)`: return, or the rejection leaves the
\* catch block and rejects the call
AfterLog(s, outcome) ==
    IF outcome = "ok"
    THEN [s EXCEPT !.pc = "resolved"]
    ELSE [s EXCEPT !.pc = "rejected"]

\* the answer of the endpoint to the request in flight
FetchAnswered(s, outcome) ==
    IF outcome = "ok" THEN [s EXCEPT !.oks = @ + 1] ELSE [s EXCEPT !.fails = @ + 1]

\* the answer of the host's logger to the log call in flight
LogAnswered(s, outcome) == [s EXCEPT !.logRes = outcome]

\* Mutant of FetchPending: the backoff is a blocking wait, so no response is
\* handled while another delivery waits
FetchPendingBlockedBySleep(i) ==
    /\ task[i].pc = "fetch"
    /\ \A j \in DOMAIN task : task[j].pc # "sleep"

\* Mutant of TimerPending: the promise of the backoff wait is never resolved
TimerPendingNever(i) == FALSE

\* a continuation runs when what it awaits has settled
FetchPending(i) == task[i].pc = "fetch"
TimerPending(i) == task[i].pc = "sleep"
LogPending(i) == task[i].pc = "logging"

Settled(s) == s.pc \in {"resolved", "rejected"}

----------------------------------------------------------------------------
(* EventPushPlugin *)

\* Mutant of Matches: the test for an empty list is missing
MatchesWithoutEmptyTest(t, type) ==
    \/ ~IsSome(t.events)
    \/ type \in Range(t.events[1])

\* Mutant of Matches: the type is not compared, every target matches
MatchesEveryTarget(t, type) == TRUE

\* !t.events || t.events.length === 0 || t.events.includes(event.type)
Matches(t, type) ==
    \/ ~IsSome(t.events)
    \/ Len(t.events[1]) = 0
    \/ type \in Range(t.events[1])

\* targets.filter(...), as the set of places in the list
MatchingTargets(ts, type) == {i \in DOMAIN ts : Matches(ts[i], type)}

\* Mutant of StartedAtDispatch: the deliveries are awaited one by one, only
\* the first call is made before the handler awaits
StartedAtDispatchFirstOnly(matching) ==
    {i \in matching : \A j \in matching : i <= j}

\* the calls matchingTargets.map(...) makes before the handler first awaits
StartedAtDispatch(matching) == matching

\* Mutant of JoinReady: Promise.all inside a try block, settled when all
\* deliveries have settled or with the first that is rejected
JoinReadyOnRejection(ss) ==
    \/ \A i \in DOMAIN ss : ss[i].pc = "none" \/ Settled(ss[i])
    \/ \E i \in DOMAIN ss : ss[i].pc = "rejected"

\* Mutant of JoinReady: Promise.race, settled with the first delivery
JoinReadyFirstSettled(ss) == \E i \in DOMAIN ss : Settled(ss[i])

\* Mutant of JoinOutcome: Promise.all, rejected when a delivery is rejected
JoinOutcomePromiseAll(ss) ==
    IF \E i \in DOMAIN ss : ss[i].pc = "rejected" THEN "raised" ELSE "returned"

\* Promise.allSettled: fulfilled once every promise is fulfilled or rejected
JoinReady(ss) == \A i \in DOMAIN ss : ss[i].pc = "none" \/ Settled(ss[i])

\* Promise.allSettled never rejects
JoinOutcome(ss) == "returned"

\* no loadConfig call and no interpolate call is followed
NoLoad == [pc |-> "none"]
NoInterp == [pc |-> "none"]

Init ==
    /\ targets \in {MakeTargets(f) : f \in TargetLists}
    /\ hooks = "unset"
    /\ hpc = "idle"
    /\ event = [type |-> "x"]
    /\ task = [i \in DOMAIN targets |-> NoTask]
    /\ load = NoLoad
    /\ interp = NoInterp

\* Mutant of Activate: the hook set with `event` is returned whatever the
\* target list
ActivateAlwaysHooks ==
    /\ hooks = "unset"
    /\ hooks' = "event"
    /\ UNCHANGED <<load, interp, targets, hpc, event, task>>

\* if (targets.length === 0) return {} ; else the hook set with `event`
Activate ==
    /\ hooks = "unset"
    /\ hooks' = IF Len(targets) = 0 THEN "empty" ELSE "event"
    /\ UNCHANGED <<load, interp, targets, hpc, event, task>>

\* Mutant of Dispatch: the filter fills in a missing events list of the
\* target itself (target.events ??= [])
DispatchFillsEvents(type) ==
    /\ hooks = "event"
    /\ hpc \in {"idle", "returned"}
    /\ event' = [type |-> type]
    /\ targets' = [i \in DOMAIN targets |->
                      [targets[i] EXCEPT !.events = IF @ = None THEN Some(<<>>) ELSE @]]
    /\ LET matching == MatchingTargets(targets, type)
       IN  /\ task' = [i \in DOMAIN targets |->
                          IF i \in StartedAtDispatch(matching)
                          THEN PushStart(targets[i], event') ELSE NoTask]
           /\ hpc' = IF Cardinality(matching) = 0 THEN "returned" ELSE "awaiting"
    /\ UNCHANGED <<load, interp, hooks>>

\* Mutant of Dispatch: the handler loads the configuration again for every
\* event
DispatchReloads(type) ==
    /\ hooks = "event"
    /\ hpc \in {"idle", "returned"}
    /\ event' = [type |-> type]
    /\ targets' = IF "disk" \in DOMAIN load THEN MakeTargets(load.disk) ELSE targets
    /\ load' = IF "reads" \in DOMAIN load THEN [load EXCEPT !.reads = @ + 1] ELSE load
    /\ LET matching == MatchingTargets(targets', type)
       IN  /\ task' = [i \in DOMAIN targets' |->
                          IF i \in StartedAtDispatch(matching)
                          THEN PushStart(targets'[i], event') ELSE NoTask]
           /\ hpc' = IF Cardinality(matching) = 0 THEN "returned" ELSE "awaiting"
    /\ UNCHANGED <<interp, hooks>>

\* the host calls the event hook: the synchronous part of the handler
Dispatch(type) ==
    /\ hooks = "event"
    /\ hpc \in {"idle", "returned"}
    /\ event' = [type |-> type]
    /\ LET matching == MatchingTargets(targets, type)
       IN  /\ task' = [i \in DOMAIN targets |->
                          IF i \in StartedAtDispatch(matching)
                          THEN PushStart(targets[i], event') ELSE NoTask]
           /\ hpc' = IF Cardinality(matching) = 0 THEN "returned" ELSE "awaiting"
    /\ UNCHANGED <<load, interp, targets, hooks>>

FetchSettles(i, outcome) ==
    /\ FetchPending(i)
    /\ task' = [task EXCEPT
                    ![i] = AfterFetch(targets[i], FetchAnswered(task[i], outcome),
                                      outcome)]
    /\ UNCHANGED <<load, interp, targets, hooks, hpc, event>>

TimerFires(i) ==
    /\ TimerPending(i)
    /\ task' = [task EXCEPT ![i] = AfterSleep(targets[i], task[i])]
    /\ UNCHANGED <<load, interp, targets, hooks, hpc, event>>

LogSettles(i, outcome) ==
    /\ LogPending(i)
    /\ task' = [task EXCEPT ![i] = AfterLog(LogAnswered(task[i], outcome), outcome)]
    /\ UNCHANGED <<load, interp, targets, hooks, hpc, event>>

\* the continuation of `await Promise.allSettled(...)`
HandlerReturns ==
    /\ hpc = "awaiting"
    /\ JoinReady(task)
    /\ hpc' = JoinOutcome(task)
    /\ UNCHANGED <<load, interp, targets, hooks, event, task>>

DispatchAny == \E type \in EventTypes : Dispatch(type)
FetchSettlesAny == \E i \in DOMAIN targets, o \in FetchOutcomes : FetchSettles(i, o)
TimerFiresAny == \E i \in DOMAIN targets : TimerFires(i)
LogSettlesAny == \E i \in DOMAIN targets, o \in LogOutcomes : LogSettles(i, o)

Next ==
    \/ Activate
    \/ DispatchAny
    \/ FetchSettlesAny
    \/ TimerFiresAny
    \/ LogSettlesAny
    \/ HandlerReturns

Spec == Init /\ [][Next]_vars

\* The steps of the delivery to the i-th target, if there is one
FetchSettlesOf(i) == i \in DOMAIN targets /\ \E o \in FetchOutcomes : FetchSettles(i, o)
TimerFiresOf(i) == i \in DOMAIN targets /\ TimerFires(i)
LogSettlesOf(i) == i \in DOMAIN targets /\ \E o \in LogOutcomes : LogSettles(i, o)

\* Every fetch settles, every timer fires, every log call settles, and the
\* event loop runs the continuation of a settled Promise.allSettled
Fairness ==
    /\ \A i \in 1..MaxTargets :
          /\ WF_vars(FetchSettlesOf(i))
          /\ WF_vars(TimerFiresOf(i))
          /\ WF_vars(LogSettlesOf(i))
    /\ WF_vars(HandlerReturns)

\* The targets of the deliveries followed to their end: without a retry
\* policy, with no attempt, with one attempt, and with a filter
LivePool ==
    {[events |-> None, retry |-> None],
     [events |-> None, retry |-> Some([attempts |-> Some(0), delayMs |-> None])],
     [events |-> None, retry |-> Some([attempts |-> Some(1), delayMs |-> Some(0)])],
     [events |-> Some(<<"y", "x">>), retry |-> Some([attempts |-> Some(1), delayMs |-> Some(0)])]}

InitLive ==
    /\ targets \in {MakeTargets(f) : f \in UNION {[1..n -> LivePool] : n \in 0..MaxTargets}}
    /\ hooks = "unset"
    /\ hpc = "idle"
    /\ event = [type |-> "x"]
    /\ task = [i \in DOMAIN targets |-> NoTask]
    /\ load = NoLoad
    /\ interp = NoInterp

SpecLive == InitLive /\ [][Next]_vars /\ Fairness

\* A single pushToTarget call: one target, which matches every event
InitPush ==
    /\ targets \in {MakeTargets(f) : f \in [1..1 -> PushPool]}
    /\ hooks = "unset"
    /\ hpc = "idle"
    /\ event = [type |-> "x"]
    /\ task = [i \in DOMAIN targets |-> NoTask]
    /\ load = NoLoad
    /\ interp = NoInterp

SpecPush == InitPush /\ [][Next]_vars

\* What loadConfig would return if it were called now, as the files and the
\* environment stand: a list of targets with or without a filter
DiskPool ==
    {[events |-> e, retry |-> Some([attempts |-> Some(1), delayMs |-> Some(0)])] :
        e \in EventsChoices}
    \cup {[events |-> None, retry |-> Some([attempts |-> Some(2), delayMs |-> Some(0)])]}
DiskLists == UNION {[1..n -> DiskPool] : n \in 0..MaxDiskTargets}

\* The plugin from before its activation, with configuration files and an
\* environment that change at any time. load.disk is what loadConfig would
\* return now, load.reads counts the loadConfig calls, load.loaded records
\* what the call at activation returned
InitReload ==
    /\ targets = <<>>
    /\ hooks = "unset"
    /\ hpc = "idle"
    /\ event = [type |-> "x"]
    /\ task = <<>>
    /\ interp = NoInterp
    /\ \E f \in DiskLists : load = [pc |-> "disk", disk |-> f, reads |-> 0, loaded |-> <<>>]

\* const { targets } = loadConfig(directory); if (targets.length === 0)
\* return {} ; else the hook set with `event`
ActivateLoad ==
    /\ hooks = "unset"
    /\ load' = [load EXCEPT !.reads = @ + 1, !.loaded = load.disk]
    /\ targets' = MakeTargets(load.disk)
    /\ task' = [i \in DOMAIN targets' |-> NoTask]
    /\ hooks' = IF Len(targets') = 0 THEN "empty" ELSE "event"
    /\ UNCHANGED <<interp, hpc, event>>

\* a configuration file or an environment variable is changed
ConfigChanges ==
    /\ \E f \in DiskLists : f # load.disk /\ load' = [load EXCEPT !.disk = f]
    /\ UNCHANGED <<interp, targets, hooks, hpc, event, task>>

NextReload ==
    \/ ActivateLoad
    \/ ConfigChanges
    \/ DispatchAny
    \/ FetchSettlesAny
    \/ TimerFiresAny
    \/ LogSettlesAny
    \/ HandlerReturns

SpecReload == InitReload /\ [][NextReload]_vars

\* A readConfigFile call that was not made
NoCall == [called |-> FALSE, result |-> None, warns |-> 0, parses |-> 0, threw |-> FALSE]
Call(out) ==
    [called |-> TRUE, result |-> out.result, warns |-> out.warns, parses |-> out.parses,
     threw |-> out.threw]
\* an exception of readConfigFile leaves loadConfig, which has no try block
AfterCall(call, pc) == IF call.threw THEN "raised" ELSE pc

\* loadConfig(directory) over every state of the two files
InitLoad ==
    /\ targets = <<>>
    /\ hooks = "unset"
    /\ hpc = "idle"
    /\ event = [type |-> "x"]
    /\ task = <<>>
    /\ interp = NoInterp
    /\ \E d \in {None, Some("/proj")}, gf \in Files("g"), pf \in Files("p") :
          load = [pc |-> "start", directory |-> d, gfile |-> gf, pfile |-> pf,
                  g |-> NoCall, p |-> NoCall, targets |-> <<>>]

\* const globalConfig = readConfigFile(globalPath)
ReadGlobal ==
    /\ load.pc = "start"
    /\ LET call == Call(ReadConfigFile(load.gfile, FileTexts("g"), LoadEnv))
       IN  load' = [load EXCEPT !.pc = AfterCall(call, "global"), !.g = call]
    /\ UNCHANGED <<targets, hooks, hpc, event, task, interp>>

\* const projectConfig = projectPath ? readConfigFile(projectPath) : null
ReadProject ==
    /\ load.pc = "global"
    /\ LET call == IF IsSome(load.directory)
                   THEN Call(ReadConfigFile(load.pfile, FileTexts("p"), LoadEnv))
                   ELSE NoCall
       IN  load' = [load EXCEPT !.pc = AfterCall(call, "project"), !.p = call]
    /\ UNCHANGED <<targets, hooks, hpc, event, task, interp>>

\* return { targets: [...] }
Merge ==
    /\ load.pc = "project"
    /\ load' = [load EXCEPT !.pc = "done",
                            !.targets = MergeTargets(load.g.result, load.p.result)]
    /\ UNCHANGED <<targets, hooks, hpc, event, task, interp>>

NextLoad == ReadGlobal \/ ReadProject \/ Merge

SpecLoad == InitLoad /\ [][NextLoad]_vars

\* interpolate(value) over the strings, the other values and the environments
InitInterp ==
    /\ targets = <<>>
    /\ hooks = "unset"
    /\ hpc = "idle"
    /\ event = [type |-> "x"]
    /\ task = <<>>
    /\ load = NoLoad
    /\ \E env \in Envs :
          \/ \E str \in Strings :
                interp = [pc |-> "start", value |-> Str(str), env |-> env, result |-> Null]
          \/ \E k \in DOMAIN Values :
                interp = [pc |-> "start", value |-> Values[k], env |-> env, result |-> Null]

InterpolateCall ==
    /\ interp.pc = "start"
    /\ interp' = [interp EXCEPT !.pc = "done",
                                !.result = Interpolate(interp.value, interp.env)]
    /\ UNCHANGED <<targets, hooks, hpc, event, task, load>>

NextInterp == InterpolateCall

SpecInterp == InitInterp /\ [][NextInterp]_vars

----------------------------------------------------------------------------
(* What the claims speak of, stated from the configuration alone *)

Idx == DOMAIN targets

\* the number of attempts a target is configured with (3 when not given)
ClaimAttempts(t) ==
    IF t.retry = None THEN 3
    ELSE IF t.retry[1].attempts = None THEN 3
    ELSE t.retry[1].attempts[1]

\* the base delay a target is configured with (500 when not given)
ClaimBaseDelay(t) ==
    IF t.retry = None THEN 500
    ELSE IF t.retry[1].delayMs = None THEN 500
    ELSE t.retry[1].delayMs[1]

\* the events list is absent, is empty, or contains the type
ClaimMatches(t, type) ==
    \/ t.events = None
    \/ t.events = Some(<<>>)
    \/ \E k \in 1..Len(t.events[1]) : t.events[1][k] = type

\* the handler was called for `event`
Called == hpc # "idle"

\* the delivery has ended in terminal failure: its log call was made
FailedForGood(s) == Len(s.logs) >= 1

\* a request is in flight, a backoff wait is pending or a log call is pending
InProgress(s) == s.pc \in {"fetch", "sleep", "logging"}

----------------------------------------------------------------------------
(* pushToTarget: claims C1 to C4 *)

\* C1: a pushToTarget call for a target with attempts >= 1 whose logger call
\* did not fail never raises, whatever the outcomes of its attempts: it is
\* never rejected, and once nothing is pending it has returned normally.
C1_NoRaiseWhenLogSucceeds ==
    \A i \in Idx :
        (ClaimAttempts(targets[i]) >= 1 /\ task[i].logRes # "fail")
            => /\ task[i].pc # "rejected"
               /\ (task[i].pc # "none" /\ ~InProgress(task[i]))
                      => task[i].pc = "resolved"

\* C1 witness: a call that failed on several attempts, a transport failure
\* among them ending it, logged with success and returned normally.
C1_Witness ==
    \E i \in Idx :
        /\ task[i].fails >= 2
        /\ task[i].logRes = "ok"
        /\ task[i].logs[1].extra.error = "Error: fetch failed"
        /\ task[i].pc = "resolved"

\* C2 (as claimed): a pushToTarget call whose logFailure callback failed on
\* the terminal-failure report still returns normally, it is never rejected.
C2_ReturnsWhenLogFails ==
    \A i \in Idx : task[i].logRes = "fail" => task[i].pc # "rejected"

\* C3: for a target with attempts n >= 1, never more than n requests are
\* sent; the logger is invoked at most once, and only when n attempts have
\* failed, after n requests and n - 1 backoff waits (none for n = 1), with
\* the attempt count n; and when all n attempts have failed, exactly n
\* requests were sent and the logger was invoked exactly once.
C3_ExhaustionLogsOnce ==
    \A i \in Idx :
        LET n == ClaimAttempts(targets[i])
            s == task[i]
        IN  n >= 1 =>
              /\ s.sent <= n
              /\ Len(s.logs) <= 1
              /\ Len(s.logs) = 1 =>
                    /\ s.fails = n
                    /\ s.sent = n
                    /\ Len(s.waits) = n - 1
                    /\ s.logs[1].extra.attempts = n
                    /\ s.logs[1].message[4] = n
              /\ s.fails = n => (s.sent = n /\ Len(s.logs) = 1)

\* C3 witness: in one dispatch, a target with attempts 1 and a target with
\* the default 3 attempts have both failed on every attempt and logged.
C3_Witness ==
    \E i, j \in Idx :
        /\ ClaimAttempts(targets[i]) = 1 /\ task[i].fails = 1
        /\ Len(task[i].logs) = 1 /\ Len(task[i].waits) = 0
        /\ ClaimAttempts(targets[j]) = 3 /\ task[j].fails = 3
        /\ Len(task[j].logs) = 1 /\ task[j].sent = 3

\* C4: once an attempt of a call has received a successful status, after k
\* failed attempts, exactly k + 1 requests have been sent, none is sent
\* afterwards (the call has returned), and the logger was never invoked; the
\* logger is invoked only when all attempts have failed.
C4_SuccessStopsSilently ==
    \A i \in Idx :
        LET s == task[i]
        IN  /\ s.oks >= 1 =>
                  /\ s.oks = 1
                  /\ s.sent = s.fails + 1
                  /\ s.fails < ClaimAttempts(targets[i])
                  /\ Len(s.logs) = 0
                  /\ s.pc = "resolved"
            /\ Len(s.logs) >= 1 =>
                  (s.oks = 0 /\ s.fails = ClaimAttempts(targets[i]))

\* C4 witness: the handler has returned after a delivery that failed once
\* and then succeeded on its second attempt.
C4_Witness ==
    /\ hpc = "returned"
    /\ \E i \in Idx :
          task[i].oks = 1 /\ task[i].fails = 1 /\ task[i].sent = 2

----------------------------------------------------------------------------
(* The event handler: claims C5 to C10 *)

\* C5: once the handler was called for an event, a delivery was started for
\* a loaded target if and only if the target's events list is absent, is
\* empty or contains the event's type; a target whose non-empty list does
\* not contain the type receives no request, and a started delivery with
\* attempts >= 1 has sent its request.
C5_StartedIffMatches ==
    Called =>
        \A i \in Idx :
            /\ task[i].pc # "none" <=> ClaimMatches(targets[i], event.type)
            /\ ~ClaimMatches(targets[i], event.type) => task[i].sent = 0
            /\ (ClaimMatches(targets[i], event.type)
                  /\ ClaimAttempts(targets[i]) >= 1) => task[i].sent >= 1

\* C5 witness: an event of a type that one target's list does not contain,
\* while another target has an empty list and its delivery is under way.
C5_Witness ==
    /\ hpc = "awaiting"
    /\ \E i, j \in Idx :
          /\ targets[i].events = Some(<<"y", "x">>) /\ event.type = "z"
          /\ task[i].pc = "none"
          /\ targets[j].events = Some(<<>>) /\ task[j].pc = "fetch"

\* C6: when no loaded target matches the event's type, the handler has
\* completed as soon as it was called, no request was sent and the logger
\* was not invoked.
C6_NoMatchNoActivity ==
    (Called /\ \A i \in Idx : ~ClaimMatches(targets[i], event.type))
        => /\ hpc = "returned"
           /\ \A i \in Idx :
                 task[i].pc = "none" /\ task[i].sent = 0 /\ Len(task[i].logs) = 0

\* C6 witness: the handler was called with an event no loaded target
\* matches, with two targets loaded.
C6_Witness ==
    /\ hpc = "returned"
    /\ Len(targets) = 2
    /\ \A i \in Idx : ~ClaimMatches(targets[i], event.type)

\* C7: when the handler has returned, every delivery of the event has
\* settled: none has a request in flight, a backoff wait pending, an attempt
\* still to make or a log call unanswered.
C7_ReturnAfterAllSettled ==
    hpc = "returned" =>
        \A i \in Idx :
            /\ ~InProgress(task[i])
            /\ ClaimMatches(targets[i], event.type) =>
                  task[i].pc \in {"resolved", "rejected"}
            /\ (ClaimMatches(targets[i], event.type)
                  /\ ClaimAttempts(targets[i]) >= 1) =>
                  \/ task[i].oks = 1
                  \/ (task[i].fails = ClaimAttempts(targets[i])
                        /\ task[i].logRes # "none")

\* C7 witness: the handler has returned after one delivery succeeded on a
\* retry and another failed on all of its attempts and logged.
C7_Witness ==
    /\ hpc = "returned"
    /\ \E i, j \in Idx :
          /\ task[i].oks = 1 /\ task[i].fails = 1
          /\ task[j].fails = 3 /\ task[j].logRes = "ok"

\* C8: for an event matching several targets, whenever the first request to
\* one of them has settled, the first request to every other matching
\* target (with attempts >= 1) has already been issued.
C8_FirstRequestsBeforeAnySettles ==
    Called =>
        \A i, j \in Idx :
            ( /\ ClaimMatches(targets[i], event.type)
              /\ ClaimMatches(targets[j], event.type)
              /\ ClaimAttempts(targets[i]) >= 1
              /\ ClaimAttempts(targets[j]) >= 1
              /\ task[i].oks + task[i].fails >= 1 )
            => task[j].sent >= 1

\* C8 witness: two matching targets, the first request of one has failed
\* while the first request of the other is still in flight.
C8_Witness ==
    \E i, j \in Idx :
        /\ i # j
        /\ task[i].fails = 1 /\ task[i].pc = "sleep"
        /\ task[j].pc = "fetch" /\ task[j].sent = 1
        /\ task[j].oks + task[j].fails = 0

\* one step of the delivery to target i
OwnStep(i) ==
    \/ \E o \in FetchOutcomes : FetchSettles(i, o)
    \/ TimerFires(i)
    \/ \E o \in LogOutcomes : LogSettles(i, o)

\* what the delivery to a target has sent and waited for, and where it
\* stands, as determined by the target's own configuration and the answers
\* it received itself
OwnCourse(t, s) ==
    LET n == ClaimAttempts(t)
        answered == s.oks + s.fails
    IN  /\ s.sent \in {answered, answered + 1}
        /\ s.sent = answered + 1 <=> s.pc = "fetch"
        /\ s.waits = [k \in 1..(IF s.fails < n THEN s.fails ELSE n - 1) |->
                         ClaimBaseDelay(t) * 2^(k - 1)]
        /\ s.pc = "sleep" => (s.oks = 0 /\ s.fails = s.sent /\ s.fails < n)
        /\ s.pc = "logging" => (s.fails = n /\ s.logRes = "none")
        /\ s.pc = "resolved" => (n <= 0 \/ s.oks = 1 \/ s.logRes = "ok")
        /\ s.pc = "rejected" => s.logRes = "fail"

\* C9: the deliveries of one event are isolated. Whatever the other
\* deliveries do, a delivery with a request in flight, a backoff wait or a
\* log call pending can take its next step; its requests, its waits and its
\* outcome are determined by its own configuration and its own answers; and
\* a step of one delivery changes no other delivery.
C9_Isolation ==
    /\ [](\A i \in Idx :
            /\ InProgress(task[i]) => ENABLED OwnStep(i)
            /\ task[i].pc # "none" => OwnCourse(targets[i], task[i]))
    /\ [][\A i, j \in Idx :
            (i # j /\ hpc = "awaiting" /\ task'[i] # task[i])
                => task'[j] = task[j]]_vars

\* C9 witness: one target has failed permanently and has logged, while the
\* delivery to another target, after a failure of its own, has its second
\* request in flight.
C9_Witness ==
    \E i, j \in Idx :
        /\ i # j
        /\ FailedForGood(task[i]) /\ task[i].logRes # "none"
        /\ task[j].pc = "fetch" /\ task[j].fails = 1 /\ task[j].sent = 2

\* C10: the event handler never raises to the host.
C10_HandlerNeverRaises == hpc # "raised"

\* C10 witness: the handler has returned although both targets match and
\* both have failed permanently on all attempts, the log call of one of
\* them having failed as well.
C10_Witness ==
    /\ hpc = "returned"
    /\ Len(targets) = 2
    /\ \A i \in Idx :
          /\ task[i].fails = ClaimAttempts(targets[i])
          /\ FailedForGood(task[i])
    /\ \E i \in Idx : task[i].logRes = "fail"

----------------------------------------------------------------------------
(* pushToTarget and the logger: claims C11 to C13 *)

\* the JSON text of an event that holds its type
ClaimJson(type) ==
    CASE type = "x" -> "{\"type\":\"x\"}"
      [] type = "z" -> "{\"type\":\"z\"}"

\* the text of the error of a failed attempt
ClaimErrorText(outcome) ==
    CASE outcome = "status" -> "Error: HTTP status"
      [] outcome = "transport" -> "Error: fetch failed"

\* C11: in a call with attempts n >= 1 and base delay b, one wait is made
\* after each failed attempt that is not the last and none after the last
\* attempt or after a success; the first wait is b and each later wait is
\* twice the one before (b, 2b, 4b, ...); and the request of attempt k + 1 is
\* sent only after the wait that follows attempt k.
C11_BackoffDoubles ==
    \A i \in Idx :
        LET n == ClaimAttempts(targets[i])
            b == ClaimBaseDelay(targets[i])
            s == task[i]
        IN  n >= 1 =>
              /\ Len(s.waits) = (IF s.fails < n THEN s.fails ELSE n - 1)
              /\ \A k \in 1..Len(s.waits) :
                    s.waits[k] = (IF k = 1 THEN b ELSE 2 * s.waits[k - 1])
              /\ s.pc = "sleep" => s.sent = Len(s.waits)
              /\ (s.pc # "sleep" /\ s.pc # "none") => s.sent = Len(s.waits) + 1

\* C11 witness: a call with four attempts and a base delay of 100 has failed
\* three times and waited 100, 200 and 400 before its fourth request.
C11_Witness ==
    \E i \in Idx :
        /\ ClaimAttempts(targets[i]) = 4
        /\ task[i].waits = <<100, 200, 400>>
        /\ task[i].pc = "fetch" /\ task[i].sent = 4

\* C12: every request of a call, the first and every retry, is a POST to
\* the target's url, its body is the JSON text of the event the handler was
\* called with, and its headers are the target's headers with Content-Type:
\* application/json added unless the target gives a Content-Type itself.
C12_RequestShape ==
    \A i \in Idx :
        LET t == targets[i]
            s == task[i]
            own == IF t.headers = None THEN <<>> ELSE t.headers[1]
        IN  /\ s.sent >= 1 <=> s.req # None
            /\ s.req # None =>
                  LET r == s.req[1]
                  IN  /\ r.method = "POST"
                      /\ r.url = t.url
                      /\ r.body = ClaimJson(event.type)
                      /\ DOMAIN r.headers = DOMAIN own \cup {"Content-Type"}
                      /\ \A h \in DOMAIN own : r.headers[h] = own[h]
                      /\ "Content-Type" \notin DOMAIN own =>
                            r.headers["Content-Type"] = "application/json"

\* C12 witness: the third request of a call is in flight for an event of
\* type z, to a target that gives an Authorization header and a Content-Type
\* of its own.
C12_Witness ==
    \E i \in Idx :
        /\ task[i].sent = 3 /\ task[i].pc = "fetch"
        /\ event.type = "z"
        /\ targets[i].headers # None
        /\ DOMAIN targets[i].headers[1] = {"Authorization", "Content-Type"}
        /\ task[i].req[1].headers["Content-Type"] = "text/plain"

\* C13: for one dispatched event the logger is invoked at most once per
\* target, and exactly once for a target if and only if it matches the
\* event and all of its attempts (>= 1) have failed, so never for a target
\* that succeeded or did not match; the record has service
\* "opencode-event-push" and level "warn", its message names the target's
\* url, the attempt count and the error, its extra fields are url, error and
\* attempts, and the error is that of the attempt that failed last.
C13_LogsOncePerExhaustedTarget ==
    /\ [](Called =>
            \A i \in Idx :
                LET n == ClaimAttempts(targets[i])
                    s == task[i]
                IN  /\ Len(s.logs) <= 1
                    /\ Len(s.logs) = 1 <=>
                          /\ ClaimMatches(targets[i], event.type)
                          /\ n >= 1
                          /\ s.fails = n
                    /\ s.oks >= 1 => Len(s.logs) = 0
                    /\ Len(s.logs) = 1 =>
                          LET r == s.logs[1]
                          IN  /\ r.service = "opencode-event-push"
                              /\ r.level = "warn"
                              /\ DOMAIN r.extra = {"url", "error", "attempts"}
                              /\ r.extra.url = targets[i].url
                              /\ r.extra.attempts = n
                              /\ r.extra.error \in
                                    {ClaimErrorText("status"),
                                     ClaimErrorText("transport")}
                              /\ r.message[2] = targets[i].url
                              /\ r.message[4] = n
                              /\ r.message[6] = r.extra.error)
    /\ [][\A i \in Idx : \A o \in {"status", "transport"} :
            (FetchSettles(i, o) /\ Len(task'[i].logs) = 1)
                => task'[i].logs[1].extra.error = ClaimErrorText(o)]_vars

\* C13 witness: of two matching targets one has succeeded and the other has
\* failed on all three attempts, the last by a non-OK status, and the logger
\* has been invoked for it.
C13_Witness ==
    \E i, j \in Idx :
        /\ task[i].oks = 1 /\ Len(task[i].logs) = 0
        /\ task[j].fails = 3 /\ Len(task[j].logs) = 1
        /\ task[j].logs[1].extra.error = "Error: HTTP status"

----------------------------------------------------------------------------
(* readConfigFile and loadConfig: claims C14 to C18 *)

\* the JSON text of file `file` tagged `tag` is the text of a value
ClaimParses(tag, file) == file.read = "ok" /\ FileTexts(tag)[file.text][1] = "json"
ClaimValue(tag, file) == FileTexts(tag)[file.text][2]
\* the value is an object with a member `targets` that is an array
ClaimHasTargetsArray(v) ==
    /\ v[1] = "obj"
    /\ \E k \in DOMAIN v[2] : v[2][k][1] = "targets" /\ v[2][k][2][1] = "arr"
ClaimMissing(file) == file.read = "throws" /\ file.err.code = Some("ENOENT")

C14_Holds(file, call) ==
    (call.called /\ ClaimMissing(file))
        => (call.result = None /\ call.warns = 0 /\ call.parses = 0)

\* C14: readConfigFile on a file that does not exist returns null, prints no
\* warning and never calls the JSON parser.
C14_MissingFileIsSilent ==
    /\ C14_Holds(load.gfile, load.g)
    /\ C14_Holds(load.pfile, load.p)

\* both files are missing and both were read
C14_Witness ==
    /\ load.pc = "done"
    /\ load.g.called /\ ClaimMissing(load.gfile) /\ load.g.result = None
    /\ load.p.called /\ ClaimMissing(load.pfile) /\ load.p.warns = 0

C15_Holds(file, call) ==
    (call.called /\ file.read = "throws" /\ ~ClaimMissing(file))
        => (call.result = None /\ call.warns = 1)

C16_Holds(tag, file, call) ==
    (call.called /\ file.read = "ok" /\ ~ClaimParses(tag, file))
        => (call.result = Some(EmptyConfig) /\ call.warns = 1)

\* C16: readConfigFile on a file that is read but is not JSON returns
\* { targets: [] }, not null, and prints exactly one warning.
C16_MalformedGivesEmptyList ==
    /\ C16_Holds("g", load.gfile, load.g)
    /\ C16_Holds("p", load.pfile, load.p)

C17_Holds(tag, file, call) ==
    (call.called /\ ClaimParses(tag, file) /\ ~ClaimHasTargetsArray(ClaimValue(tag, file)))
        => (call.result = Some(EmptyConfig) /\ call.warns = 1)

\* C17: readConfigFile on a file that is JSON, of whatever top-level type,
\* without an array-valued `targets` returns { targets: [] }, not null, and
\* prints exactly one warning.
C17_NoTargetsArrayGivesEmptyList ==
    /\ C17_Holds("g", load.gfile, load.g)
    /\ C17_Holds("p", load.pfile, load.p)

\* the targets file `file` contributes: those of its array, with the
\* environment substituted, or none
ClaimFileTargets(tag, file) ==
    IF ClaimParses(tag, file) /\ ClaimHasTargetsArray(ClaimValue(tag, file))
    THEN LET items == Field(ClaimValue(tag, file), "targets")[2]
         IN  [k \in DOMAIN items |-> Interpolate(items[k], LoadEnv)]
    ELSE <<>>

\* C18: loadConfig returns the global file's targets in their order followed
\* by the project file's targets in their order, the project file counting
\* only when a directory was given; a file that gives no targets counts as
\* empty.
C18_GlobalThenProject ==
    load.pc = "done" =>
        load.targets =
            ClaimFileTargets("g", load.gfile)
            \o (IF load.directory = None THEN <<>> ELSE ClaimFileTargets("p", load.pfile))

\* both files hold targets, the project file the most a file holds
C18_Witness ==
    /\ load.pc = "done"
    /\ load.directory # None
    /\ Len(ClaimFileTargets("g", load.gfile)) = 1
    /\ Len(ClaimFileTargets("p", load.pfile)) = MaxFileTargets
    /\ Len(load.targets) = MaxFileTargets + 1
    /\ Field(load.targets[1], "url") = Str(<<"g", "h", "o", "s", "t">>)
    /\ Field(load.targets[MaxFileTargets + 1], "url") = Str(<<"p", "h", "o", "s", "t">>)

----------------------------------------------------------------------------
(* Activation: claim C19 *)

\* C19: activation returns the hook set with the event handler if and only
\* if the loaded target list is not empty; with an empty list it returns the
\* empty hook set, the handler can then never be called, and no request is
\* sent.
C19_HandlerIffTargets ==
    /\ hooks # "unset" => (hooks = "event" <=> Len(targets) > 0)
    /\ hooks # "unset" => (hooks = "empty" <=> Len(targets) = 0)
    /\ Len(targets) = 0 =>
          /\ ~ENABLED DispatchAny
          /\ ~Called
          /\ \A i \in DOMAIN task : task[i].sent = 0

\* activation has returned the empty hook set for an empty target list
C19_Witness == hooks = "empty" /\ Len(targets) = 0 /\ hpc = "idle"

----------------------------------------------------------------------------
(* interpolate: claim C20 *)

\* positions i to j of s are a token {env:NAME}: NAME is not empty and holds
\* no "}"
ClaimTokenAt(s, i, j) ==
    /\ s[i] = "{env:"
    /\ j >= i + 2
    /\ s[j] = "}"
    /\ \A k \in (i + 1)..(j - 1) : s[k] # "}"

ClaimHasToken(s) == \E i, j \in 1..Len(s) : ClaimTokenAt(s, i, j)

\* the value of the variable, the empty text when it is not set
ClaimEnv(env, name) == IF \E n \in DOMAIN env : n = name THEN env[name] ELSE <<>>

\* s with every token replaced: the text before the first token, the value
\* of its variable, and the rest of s treated the same way
RECURSIVE ClaimSubst(_, _)
ClaimSubst(s, env) ==
    IF ~ClaimHasToken(s) THEN s
    ELSE LET i == CHOOSE a \in 1..Len(s) :
                      /\ \E b \in 1..Len(s) : ClaimTokenAt(s, a, b)
                      /\ \A c \in 1..(a - 1) : \A b \in 1..Len(s) : ~ClaimTokenAt(s, c, b)
             j == CHOOSE b \in 1..Len(s) : ClaimTokenAt(s, i, b)
         IN  SubSeq(s, 1, i - 1) \o ClaimEnv(env, SubSeq(s, i + 1, j - 1))
                \o ClaimSubst(SubSeq(s, j + 1, Len(s)), env)

\* v with the tokens of its string leaves replaced and nothing else changed
RECURSIVE ClaimInterp(_, _)
ClaimInterp(v, env) ==
    CASE v[1] = "str" -> <<"str", ClaimSubst(v[2], env)>>
      [] v[1] = "arr" -> <<"arr", [k \in DOMAIN v[2] |-> ClaimInterp(v[2][k], env)]>>
      [] v[1] = "obj" ->
            <<"obj", [k \in DOMAIN v[2] |-> <<v[2][k][1], ClaimInterp(v[2][k][2], env)>>]>>
      [] OTHER -> v

\* no string leaf of v holds a token
RECURSIVE ClaimNoToken(_)
ClaimNoToken(v) ==
    CASE v[1] = "str" -> ~ClaimHasToken(v[2])
      [] v[1] = "arr" -> \A k \in DOMAIN v[2] : ClaimNoToken(v[2][k])
      [] v[1] = "obj" -> \A k \in DOMAIN v[2] : ClaimNoToken(v[2][k][2])
      [] OTHER -> TRUE

\* C20 (as claimed): interpolate returns its argument with every token
\* {env:NAME} of every string leaf replaced by the value of NAME, or by the
\* empty text when NAME is not set, and with nothing else changed: the text
\* around the tokens, the keys of objects, the order and length of arrays and
\* the other leaves are kept, and a value without a token is returned equal
\* to itself.
C20_InterpolateSubstitutesOnly ==
    interp.pc = "done" =>
        /\ interp.result = ClaimInterp(interp.value, interp.env)
        /\ ClaimNoToken(interp.value) => interp.result = interp.value

----------------------------------------------------------------------------
(* Frame, order and termination of the deliveries: claims C21 to C25 *)

\* C21: no step of the event handler and no step of a pushToTarget call
\* changes the loaded target list or a field of a target (url, events,
\* retry, headers), over any number of events and any interleaving of the
\* deliveries.
C21_TargetsNeverChange == [][targets' = targets]_vars

\* C21 witness: two deliveries of one event are under way, one waiting its
\* backoff and one with its request in flight, for targets that are as
\* loaded (the first without an events list).
C21_Witness ==
    /\ hpc = "awaiting"
    /\ Len(targets) = 2
    /\ targets[1].events = None
    /\ task[1].pc = "sleep" /\ task[2].pc = "fetch"

\* C22: within one call the attempts are strictly sequential. A request is
\* in flight exactly when one more request was sent than answered, so never
\* two at a time; and while the call runs, a request is sent only by the
\* step in which the backoff wait after attempt k elapses: it is request
\* k + 1, and all k requests before it have been answered with a failure.
C22_AttemptsSequential ==
    /\ [](\A i \in Idx :
            LET s == task[i]
            IN  /\ s.sent - (s.oks + s.fails) \in {0, 1}
                /\ s.sent - (s.oks + s.fails) = 1 <=> s.pc = "fetch")
    /\ [][\A i \in Idx :
            (hpc = "awaiting" /\ task'[i].sent # task[i].sent)
                => /\ task'[i].sent = task[i].sent + 1
                   /\ task[i].pc = "sleep"
                   /\ TimerFires(i)
                   /\ task[i].oks = 0
                   /\ task[i].fails = task[i].sent
                   /\ Len(task[i].waits) = task[i].sent]_vars

\* C22 witness: the third request of a call is in flight after two failed
\* attempts and two backoff waits.
C22_Witness ==
    \E i \in Idx :
        /\ task[i].pc = "fetch" /\ task[i].sent = 3
        /\ task[i].fails = 2 /\ Len(task[i].waits) = 2

\* the other kind of failure
ClaimOtherFailure(outcome) == IF outcome = "status" THEN "transport" ELSE "status"

\* what a call has done, the text of the reported error left out
ClaimCourse(s) ==
    [pc |-> s.pc, sent |-> s.sent, waits |-> s.waits, attempt |-> s.attempt,
     req |-> s.req, oks |-> s.oks, fails |-> s.fails, logRes |-> s.logRes,
     logs |-> [k \in DOMAIN s.logs |->
                  [service |-> s.logs[k].service, level |-> s.logs[k].level,
                   url |-> s.logs[k].extra.url, attempts |-> s.logs[k].extra.attempts]]]

\* C23: a non-OK status and a transport failure are treated alike. Whenever
\* an attempt of a call fails in one of the two ways, the call goes on
\* exactly as it would have had the attempt failed in the other way: the
\* same requests sent, the same backoff waits, the same number of log calls
\* and the same way of returning; only the text of the reported error
\* differs.
C23_FailureKindsAlike ==
    [][\A i \in Idx : \A o \in {"status", "transport"} :
          FetchSettles(i, o) =>
              ClaimCourse(task'[i]) =
                  ClaimCourse(AfterFetch(targets[i],
                                         FetchAnswered(task[i], ClaimOtherFailure(o)),
                                         ClaimOtherFailure(o)))]_vars

\* C23 witness: a call of three attempts has failed three times, the last
\* time by a transport failure, has waited twice and has made its one log
\* call with that error.
C23_Witness ==
    \E i \in Idx :
        /\ ClaimAttempts(targets[i]) = 3
        /\ task[i].fails = 3 /\ task[i].sent = 3
        /\ Len(task[i].waits) = 2
        /\ Len(task[i].logs) = 1
        /\ task[i].logs[1].extra.error = ClaimErrorText("transport")
        /\ task[i].pc = "logging"

\* C24: if every request is answered, every backoff timer fires and every
\* log call is answered, then every pushToTarget call that is under way
\* eventually completes, having sent no more requests than its attempts
\* (none for attempts <= 0), and every invocation of the event handler
\* eventually returns.
C24_EverythingCompletes ==
    /\ [](\A i \in Idx :
            task[i].sent <= (IF ClaimAttempts(targets[i]) >= 1
                             THEN ClaimAttempts(targets[i]) ELSE 0))
    /\ \A i \in 1..MaxTargets :
          (i \in Idx /\ InProgress(task[i]))
              ~> (i \in Idx /\ task[i].pc \in {"resolved", "rejected"})
    /\ (hpc = "awaiting") ~> (hpc = "returned")

\* C24 witness: the handler has returned after a delivery that used all
\* three of its attempts and another that succeeded at once.
C24_Witness ==
    /\ hpc = "returned"
    /\ \E i, j \in Idx :
          /\ task[i].sent = 3 /\ task[i].fails = 3 /\ task[i].pc = "resolved"
          /\ task[j].sent = 1 /\ task[j].oks = 1 /\ task[j].pc = "resolved"

\* C25: when the log call of a delivery has failed, the handler still does
\* not raise to the host, it goes on awaiting while any other delivery of
\* the event is under way, and when it has returned every delivery has
\* settled.
C25_LogFailureDoesNotStopHandler ==
    (\E i \in Idx : task[i].logRes = "fail") =>
        /\ hpc \in {"awaiting", "returned"}
        /\ (\E j \in Idx : InProgress(task[j])) => hpc = "awaiting"
        /\ hpc = "returned" =>
              \A j \in Idx :
                  ClaimMatches(targets[j], event.type) =>
                      task[j].pc \in {"resolved", "rejected"}

\* C25 witness: the log call of one delivery has failed and the handler is
\* still awaiting another delivery, which is in its backoff wait.
C25_Witness ==
    /\ hpc = "awaiting"
    /\ \E i, j \in Idx :
          /\ task[i].logRes = "fail" /\ task[i].pc = "rejected"
          /\ task[j].pc = "sleep"

----------------------------------------------------------------------------
(* loadConfig with a file that gives nothing: claim C26 *)

\* the file is missing, cannot be read, is not JSON, or is JSON without an
\* array-valued `targets`
ClaimGivesNothing(tag, file) ==
    ~(ClaimParses(tag, file) /\ ClaimHasTargetsArray(ClaimValue(tag, file)))

\* C26: loadConfig never raises, and when one of the two files is missing,
\* unreadable, malformed or without an array-valued `targets`, the result is
\* exactly the targets of the other file, complete and in their order.
C26_BadFileCountsAsEmpty ==
    /\ load.pc # "raised"
    /\ load.pc = "done" =>
          /\ ClaimGivesNothing("g", load.gfile) =>
                load.targets = (IF load.directory = None THEN <<>>
                                ELSE ClaimFileTargets("p", load.pfile))
          /\ (load.directory # None /\ ClaimGivesNothing("p", load.pfile)) =>
                load.targets = ClaimFileTargets("g", load.gfile)

\* C26 witness: the global file is not JSON, and loadConfig has returned the
\* targets of the project file, the most a file holds.
C26_Witness ==
    /\ load.pc = "done"
    /\ load.gfile.read = "ok" /\ ~ClaimParses("g", load.gfile)
    /\ load.g.warns = 1
    /\ Len(ClaimFileTargets("p", load.pfile)) = MaxFileTargets
    /\ Len(load.targets) = MaxFileTargets
    /\ Field(load.targets[MaxFileTargets], "url") = Str(<<"p", "h", "o", "s", "t">>)

----------------------------------------------------------------------------
(* pushToTarget without an attempt: claim C27 *)

\* C27: a pushToTarget call for a target whose retry.attempts is 0 or
\* negative sends no request, sets no timer, never invokes the logger and
\* has returned normally as soon as it was made.
C27_NoAttemptsNoRequest ==
    \A i \in Idx :
        (ClaimAttempts(targets[i]) <= 0 /\ task[i].pc # "none") =>
            /\ task[i].sent = 0
            /\ task[i].req = None
            /\ task[i].waits = <<>>
            /\ task[i].logs = <<>>
            /\ task[i].logRes = "none"
            /\ task[i].pc = "resolved"

\* C27 witness: the handler has returned from an event for a target with a
\* negative number of attempts, whose call returned without a request.
C27_Witness ==
    /\ hpc = "returned"
    /\ \E i \in Idx :
          /\ ClaimAttempts(targets[i]) < 0
          /\ task[i].pc = "resolved" /\ task[i].sent = 0

----------------------------------------------------------------------------
(* The configuration is read once: claim C28 *)

\* C28: the configuration is read at activation and never again. After
\* activation the target list is the one loadConfig returned then, whatever
\* the files and the environment have become; no step of the handler or of a
\* delivery reads the configuration; and every event starts a delivery for
\* exactly the targets of that list that match it.
C28_ConfigReadOnce ==
    /\ [](/\ load.reads = (IF hooks = "unset" THEN 0 ELSE 1)
          /\ hooks # "unset" =>
                /\ Len(targets) = Len(load.loaded)
                /\ \A i \in Idx : /\ targets[i].events = load.loaded[i].events
                                  /\ targets[i].retry = load.loaded[i].retry)
    /\ [][hooks # "unset" =>
            /\ targets' = targets
            /\ load'.reads = load.reads
            /\ load'.loaded = load.loaded]_vars
    /\ [][\A type \in EventTypes :
            Dispatch(type) =>
                \A i \in 1..Len(load.loaded) :
                    task'[i].pc # "none" <=> ClaimMatches(load.loaded[i], type)]_vars

\* C28 witness: a delivery is under way for the target loaded at
\* activation, for an event of type z, while the configuration on disk has
\* become one whose only target does not take that type.
C28_Witness ==
    /\ hpc = "awaiting"
    /\ event.type = "z"
    /\ load.reads = 1
    /\ Len(load.loaded) = 1 /\ load.loaded[1].events = None
    /\ Len(load.disk) = 1 /\ load.disk[1].events = Some(<<"y", "x">>)
    /\ task[1].pc = "fetch"

=============================================================================
